---- MODULE Spec2Model ----
(***************************************************************************)
(* Doqulio: the document verification pipeline                             *)
(* (features/verification/service.py), the document-processing pipeline    *)
(* (features/documents/service.py, features/documents/router.py), the      *)
(* pattern redactor (redact_text), the POST /documents/verify handler with *)
(* the PDF renderer (features/verification/router.py, generate_pdf_report) *)
(* and the start of the process (module initialization).                   *)
(*                                                                         *)
(* Python str values of the verification pipeline are TLA+ strings; the    *)
(* texts the pattern redactor scans are sequences of one-character         *)
(* strings, so that the regular expressions are matched character by       *)
(* character.  The emoji that start the VerificationStatus values are      *)
(* written as their code points ("U+2705 Verified").                       *)
(***************************************************************************)
EXTENDS Integers, Sequences, FiniteSets, TLC

\* ------------------------------------------------------------------ bounds

\* Most pages a PDF handed to verify_document has.
MaxPages == 2

\* Most fragments a text handed to redact_text is put together from.
MaxFragments == 2

\* Most requests the started process is followed through.
MaxRequests == 3

\* Most lines the summary and the details of a rendered report wrap to.
MaxSummaryLines == 2
MaxDetailsLines == 60

\* ------------------------------------------------- verification: the schema

\* schemas.py: class VerificationStatus(str, Enum); name |-> value.
VerificationStatus ==
    [ VERIFIED      |-> "U+2705 Verified",
      SUSPICIOUS    |-> "U+26A0 Suspicious",
      ERROR         |-> "U+274C Error",
      INDETERMINATE |-> "U+1F914 Indeterminate" ]

\* The values a VerificationStatus field accepts (pydantic validates an enum
\* field by value; a member is a str equal to its value).
StatusValues == { VerificationStatus[n] : n \in DOMAIN VerificationStatus }

\* The fields class VerificationReport declares that the caller supplies
\* (report_id and verified_at come from default factories).
ReportFields ==
    { "filename", "verification_status", "summary", "analysis_details",
      "extracted_text" }

\* The value of "raised": no report object exists.
NoReport == [ raised |-> "ValidationError" ]

\* VerificationReport(**kwargs): pydantic validates the declared fields and
\* ignores keyword arguments that name no declared field (Config sets no
\* `extra`).  kwargs is a function from argument names to values.
VerificationReport(kwargs) ==
    IF kwargs["verification_status"] \in StatusValues
    THEN [ f \in ReportFields |-> kwargs[f] ]
    ELSE NoReport

\* --------------------------------------------- verification: JSON and text

\* JSON values of mixed type are tagged by their only field.
JInt(n)  == [ int  |-> n ]
JStr(s)  == [ str  |-> s ]
JList(l) == [ list |-> l ]
IsJInt(v)  == DOMAIN v = { "int" }
IsJStr(v)  == DOMAIN v = { "str" }
IsJList(v) == DOMAIN v = { "list" }

\* "\n".join(list_of_str)
RECURSIVE JoinLines(_)
JoinLines(l) ==
    IF Len(l) = 0 THEN ""
    ELSE IF Len(l) = 1 THEN l[1]
    ELSE l[1] \o "\n" \o JoinLines(Tail(l))

\* dict.get(key, default) on a dict modelled as a function.
DictGet(d, key, default) == IF key \in DOMAIN d THEN d[key] ELSE default

\* What the OCR backend reads on page n of the document (n from 1; an image
\* is its own page 1).
PageText(n) ==
    CASE n = 1 -> "Invoice 42"
      [] n = 2 -> "Total 550"
      [] OTHER -> "Signed"

\* The status strings the external model may put in its JSON reply: the
\* three names the prompt asks for, two of the enum's values, and a
\* classification nobody asked for.
ReplyStatuses ==
    { "VERIFIED", "SUSPICIOUS",
      VerificationStatus.VERIFIED, VerificationStatus.ERROR, "FORGED" }

\* The confidence_score values of a reply: in range, out of range, not an
\* integer.
ReplyScores == { JInt(87), JInt(150), JInt(-5), JStr("high") }

ReplySummaries == { "", "Total differs from the items." }

ReplyDetails == { JStr("- font differs"), JList(<< "- font differs", "- sum is off" >>) }

ReplyKeys == { "status", "summary", "details", "confidence_score" }

\* Every JSON object with a subset of the four keys.
ReplyObjects ==
    UNION { { [ k \in keys |->
                  CASE k = "status"  -> st
                    [] k = "summary" -> su
                    [] k = "details" -> de
                    [] OTHER         -> sc ] :
              st \in ReplyStatuses, su \in ReplySummaries,
              de \in ReplyDetails, sc \in ReplyScores } :
            keys \in SUBSET ReplyKeys }

\* ------------------------------------------------------ the pattern redactor
\* features/documents/service.py: `patterns` and redact_text.  A text is a
\* sequence of one-character strings; positions count from 1.

Digit == { "0", "1", "2", "3", "4", "5", "6", "7", "8", "9" }
Upper ==
    { "A", "B", "C", "D", "E", "F", "G", "H", "I", "J", "K", "L", "M", "N", "O", "P", "Q", "R", "S", "T", "U", "V", "W", "X", "Y", "Z" }
Lower ==
    { "a", "b", "c", "d", "e", "f", "g", "h", "i", "j", "k", "l", "m", "n", "o", "p", "q", "r", "s", "t", "u", "v", "w", "x", "y", "z" }
Letter == Upper \cup Lower
Alnum == Letter \cup Digit
\* \w and \s of Python's re on str.
WordChar == Alnum \cup { "_" }
SpaceChar == { " ", "\t", "\n" }
\* [a-zA-Z0-9._%+-], [a-zA-Z0-9.-] and [A-Za-z0-9/-]
EmailLocalChar == Alnum \cup { ".", "_", "%", "+", "-" }
EmailDomainChar == Alnum \cup { ".", "-" }
HouseTailChar == Alnum \cup { "/", "-" }

\* The replacement token re.sub inserts.
HIDDEN == << "[", "H", "I", "D", "D", "E", "N", "]" >>

SetMax(S) == CHOOSE x \in S : \A y \in S : y <= x
SetMin(S) == CHOOSE x \in S : \A y \in S : x <= y

IsWordAt(s, p) == p >= 1 /\ p <= Len(s) /\ s[p] \in WordChar

\* \b between positions p-1 and p (p = 1: the start, p = Len(s)+1: the end).
Boundary(s, p) == IsWordAt(s, p - 1) # IsWordAt(s, p)

\* The first position from i on that holds no character of class C
\* (Len(s)+1 when the run reaches the end): where a greedy C* from i stops.
RunEnd(s, i, C) ==
    SetMin({ j \in i..(Len(s) + 1) : j = Len(s) + 1 \/ s[j] \notin C })

\* The n characters from i on exist and are all of class C.
RunOf(s, i, n, C) ==
    /\ i + n - 1 <= Len(s)
    /\ \A k \in i..(i + n - 1) : s[k] \in C

\* The literal w stands at position i.
StartsWith(s, i, w) ==
    /\ i + Len(w) - 1 <= Len(s)
    /\ \A k \in 1..Len(w) : s[i + k - 1] = w[k]

\* Each matcher gives the position after the match that starts at i, or 0
\* when the pattern does not match there.

\* [a-zA-Z0-9._%+-]+@[a-zA-Z0-9.-]+\.[a-zA-Z]{2,}
\* The local part is the whole run up to the "@"; the greedy domain backs
\* off to the last "." that has at least one character before it and two
\* letters after it; the top-level domain is the letter run after that dot.
MatchEmail(s, i) ==
    LET at == RunEnd(s, i, EmailLocalChar)
    IN IF at = i \/ at > Len(s) \/ s[at] # "@" THEN 0
       ELSE LET stop == RunEnd(s, at + 1, EmailDomainChar)
                dots == { d \in (at + 2)..(stop - 1) :
                            s[d] = "." /\ RunOf(s, d + 1, 2, Letter) }
            IN IF dots = { } THEN 0
               ELSE RunEnd(s, SetMax(dots) + 1, Letter)

\* \b\d{n}\b
MatchDigits(s, i, n) ==
    IF Boundary(s, i) /\ RunOf(s, i, n, Digit) /\ Boundary(s, i + n)
    THEN i + n ELSE 0

\* \b\d{10}\b
MatchPhone(s, i) == MatchDigits(s, i, 10)

\* \b\d{4}\s\d{4}\s\d{4}\b
MatchAadhaar(s, i) ==
    IF /\ Boundary(s, i)
       /\ RunOf(s, i, 4, Digit) /\ RunOf(s, i + 4, 1, SpaceChar)
       /\ RunOf(s, i + 5, 4, Digit) /\ RunOf(s, i + 9, 1, SpaceChar)
       /\ RunOf(s, i + 10, 4, Digit)
       /\ Boundary(s, i + 14)
    THEN i + 14 ELSE 0

\* [A-Z]{5}[0-9]{4}[A-Z]{1}
MatchPan(s, i) ==
    IF RunOf(s, i, 5, Upper) /\ RunOf(s, i + 5, 4, Digit) /\ RunOf(s, i + 9, 1, Upper)
    THEN i + 10 ELSE 0

\* \b\d{6}\b
MatchPincode(s, i) == MatchDigits(s, i, 6)

HouseWords ==
    { << "F", "l", "a", "t" >>,
      << "H", "o", "u", "s", "e" >>,
      << "P", "l", "o", "t" >>,
      << "N", "o" >>,
      << "#" >> }

\* \b(?:Flat|House|Plot|No\.?|#)\s?\d+[A-Za-z0-9/-]*\b
\* After the word: the "." of "No." when it is there, one white-space
\* character when it is there, a digit, and then the longest stretch of
\* [A-Za-z0-9/-] that ends at a word boundary.
MatchHouseNo(s, i) ==
    IF ~Boundary(s, i) THEN 0
    ELSE LET words == { w \in HouseWords : StartsWith(s, i, w) }
         IN IF words = { } THEN 0
            ELSE LET w == CHOOSE x \in words : TRUE
                     p == i + Len(w)
                     p1 == IF w = << "N", "o" >> /\ RunOf(s, p, 1, { "." })
                           THEN p + 1 ELSE p
                     p2 == IF RunOf(s, p1, 1, SpaceChar) THEN p1 + 1 ELSE p1
                 IN IF ~RunOf(s, p2, 1, Digit) THEN 0
                    ELSE LET ends == { e \in (p2 + 1)..RunEnd(s, p2, HouseTailChar) :
                                         Boundary(s, e) }
                         IN IF ends = { } THEN 0 ELSE SetMax(ends)

StreetWords ==
    { << "S", "t", "r", "e", "e", "t" >>,
      << "S", "t" >>,
      << "R", "o", "a", "d" >>,
      << "R", "d" >>,
      << "N", "a", "g", "a", "r" >>,
      << "C", "o", "l", "o", "n", "y" >>,
      << "A", "v", "e", "n", "u", "e" >>,
      << "A", "v", "e" >>,
      << "L", "a", "n", "e" >>,
      << "L", "n" >>,
      << "B", "l", "o", "c", "k" >> }

\* \b(?:Street|St|Road|Rd|Nagar|Colony|Avenue|Ave|Lane|Ln|Block)\b.*
\* "." matches every character but the newline: the match runs to the end
\* of the line.
MatchStreet(s, i) ==
    IF ~Boundary(s, i) THEN 0
    ELSE LET words == { w \in StreetWords :
                          StartsWith(s, i, w) /\ Boundary(s, i + Len(w)) }
         IN IF words = { } THEN 0
            ELSE LET w == CHOOSE x \in words : TRUE
                 IN SetMin({ j \in (i + Len(w))..(Len(s) + 1) :
                               j = Len(s) + 1 \/ s[j] = "\n" })

\* The keys of `patterns`, in the order the dict declares them.
patterns == << "email", "phone", "aadhaar", "pan", "pincode", "house_no", "street" >>

Match(rule, s, i) ==
    CASE rule = "email"    -> MatchEmail(s, i)
      [] rule = "phone"    -> MatchPhone(s, i)
      [] rule = "aadhaar"  -> MatchAadhaar(s, i)
      [] rule = "pan"      -> MatchPan(s, i)
      [] rule = "pincode"  -> MatchPincode(s, i)
      [] rule = "house_no" -> MatchHouseNo(s, i)
      [] rule = "street"   -> MatchStreet(s, i)

\* re.sub(pattern, "[HIDDEN]", s), from position i on: the leftmost match
\* is replaced and the scan goes on behind it, on the original text.
RECURSIVE SubFrom(_, _, _)
SubFrom(rule, s, i) ==
    IF i > Len(s) THEN << >>
    ELSE LET e == Match(rule, s, i)
         IN IF e > 0 THEN HIDDEN \o SubFrom(rule, s, e)
            ELSE << s[i] >> \o SubFrom(rule, s, i + 1)

re_sub(rule, s) == SubFrom(rule, s, 1)

\* The loop of redact_text over the rules `order`.
RECURSIVE RedactWith(_, _)
RedactWith(order, text) ==
    IF Len(order) = 0 THEN text
    ELSE RedactWith(Tail(order), re_sub(Head(order), text))

redact_text(text) == RedactWith(patterns, text)

\* -------------------------------------------------- verification: the state

VARIABLES
    filename,                \* verify_document's filename argument
    file_content,            \* its file_content: [pdf_pages |-> n] or [image |-> 1]
    pc,                      \* the statement verify_document is at
    page_num,                \* pages of the PDF handled so far
    full_text,               \* _extract_text_from_document's full_text list
    extracted_text,
    analysis_result,         \* [obj |-> dict] or [arr |-> list], Unset before
    redacted_summary,
    redacted_extracted_text,
    report,                  \* the VerificationReport, Unset before it exists
    outcome,                 \* "running", "returned" or "raised"
    calls,                   \* the external calls issued, in order
    failed,                  \* the stages whose except branch ran
    stage_log,               \* the stages completed, in order
    \* process_document, one entry per request
    pd_args,                 \* user_id, filename, file_data, mime_type
    pd_pc,                   \* the statement each request is at
    pd_locals,               \* content, redacted_content, summary, risk_result
    bucket,                  \* the object store: blob name -> bytes
    tmp_files,               \* the temp directory: local path -> bytes
    firestore,               \* the metadata record each request created
    \* the POST /documents/analyze handler
    an_args,                 \* the upload's text, document_type, content_type
    an_pc,
    an_locals,               \* text, redacted_text, summary, risks
    prompts,                 \* the texts sent to the language model, in order
    \* redact_text applied to a text, and to its own output
    redact_input,
    redacted,
    redacted_again,
    redact_pc,
    \* redact_text's loop run over `patterns` in another order
    applied,                 \* the rules the loop has applied so far
    permuted,                \* the loop's `text`
    \* the POST /documents/verify handler
    ep_args,                 \* the upload's filename, output_language, user_id
    ep_pc,
    ep_locals,               \* language_code, file_content
    http_response,           \* what the handler answers, Unset before
    \* generate_pdf_report
    report_data,             \* its argument
    rp_pc,
    text_y,                  \* the renderer's text_y, in points
    item_no,                 \* the report_items drawn so far
    boxes,                   \* what was drawn: page, top and bottom edge
    shown_pages,             \* the pages showPage has finished
    \* the process: module initialization, then requests
    env,                     \* the credentials the environment supplies
    boot_pc,                 \* the module whose initialization runs next
    process,                 \* "starting", "serving" or "crashed"
    boot_log,                \* what module initialization raised or printed
    requests                 \* the requests served, each with its outcome

Unset == [ unset |-> TRUE ]

Filenames == { "scan.pdf", "SCAN.PDF", "scan.png", "archive.zip" }

\* filename.lower().endswith('.pdf')
IsPdfName(name) == name \in { "scan.pdf", "SCAN.PDF" }

\* What fitz / the OCR backend make of the bytes: a PDF of n pages, or an
\* image.
FileContents == { [ pdf_pages |-> n ] : n \in 0..MaxPages } \cup { [ image |-> 1 ] }
IsPdfBytes(c) == DOMAIN c = { "pdf_pages" }

\* One external call: the service, the page (0 when none), whether it
\* returned normally, and how many stages had completed when it was issued.
Call(svc, page, ok) ==
    [ svc |-> svc, page |-> page, ok |-> ok, at |-> Len(stage_log) ]

\* ------------------------------------------- verification: the three stages

\* The outcomes of one vision_client.text_detection call.
OcrOutcomes == { "text", "no_annotation", "api_error", "rpc_error" }

OcrFails(o) == o \in { "api_error", "rpc_error" }

\* _analyze_text_with_gemini's two fixed results.
NoTextResult ==
    [ status           |-> VerificationStatus.ERROR,
      summary          |-> "OCR failed to extract text.",
      details          |-> JStr("Could not extract any text from the document."),
      confidence_score |-> JInt(0) ]

AnalysisFailedResult_Indeterminate ==
    [ status           |-> VerificationStatus.INDETERMINATE,
      summary          |-> "AI analysis failed.",
      details          |-> JStr("The AI model's output was not valid JSON."),
      confidence_score |-> JInt(0) ]

AnalysisFailedResult ==
    [ status           |-> VerificationStatus.ERROR,
      summary          |-> "AI analysis failed.",
      details          |-> JStr("The AI model's output was not valid JSON."),
      confidence_score |-> JInt(0) ]

\* The text of a model reply: a body, bare or wrapped in a ```json fence.
\* The body is a JSON object, a JSON array, or no JSON at all.
ReplyBodies ==
    { [ obj |-> o ] : o \in ReplyObjects }
        \cup { [ arr |-> << >> ] }
        \cup { [ bad |-> "Here is my analysis" ] }

\* generate_content's outcomes for the analysis prompt: it raises, the
\* response has no parts, or parts[0].text is a reply text.
AnalysisReplies ==
    { [ raises |-> TRUE ], [ parts |-> 0 ] }
        \cup { [ fenced |-> f, body |-> b ] : f \in BOOLEAN, b \in ReplyBodies }

\* raw_response_text.strip().replace("```json", "").replace("```", "")
CleanResponse(raw) == raw.body

\* Whether json.loads accepts the cleaned text.
IsJson(cleaned) == DOMAIN cleaned # { "bad" }

\* Whether the try block of _analyze_text_with_gemini ends in its except.
AnalysisRaises(reply) ==
    \/ DOMAIN reply = { "raises" }
    \/ DOMAIN reply = { "parts" }          \* raw text "", json.loads("") raises
    \/ ~IsJson(CleanResponse(reply))

_analyze_text_with_gemini_NoEmptyCheck(text, reply) ==
    IF AnalysisRaises(reply) THEN [ obj |-> AnalysisFailedResult ]
    ELSE CleanResponse(reply)

_analyze_text_with_gemini(text, reply) ==
    IF text = "" THEN [ obj |-> NoTextResult ]
    ELSE IF AnalysisRaises(reply) THEN [ obj |-> AnalysisFailedResult ]
    ELSE CleanResponse(reply)

RedactionFailedText == "Redaction failed due to an internal error."

\* generate_content's outcomes for the redaction prompt: it raises, or
\* response.text is blank, a redacted text, or the text unchanged.
RedactionReplies(text) ==
    { [ raises |-> TRUE ] }
        \cup { [ text |-> t ] : t \in { " ", " [REDACTED] ", text } }

\* str.strip() on the reply texts above.
Strip(s) ==
    CASE s = " "            -> ""
      [] s = " [REDACTED] " -> "[REDACTED]"
      [] OTHER              -> s

RedactionRaises(reply) == DOMAIN reply = { "raises" }

_redact_sensitive_info(text, reply) ==
    IF text = "" THEN ""
    ELSE IF RedactionRaises(reply) THEN RedactionFailedText
    ELSE Strip(reply.text)

\* Python's `x or y` on strings.
StrOr(x, y) == IF x = "" THEN y ELSE x

\* ------------------------------------------------ verification: the actions

verify_vars ==
    << filename, file_content, pc, page_num, full_text, extracted_text,
       analysis_result, redacted_summary, redacted_extracted_text, report,
       outcome, calls, failed, stage_log >>

docs_vars ==
    << pd_args, pd_pc, pd_locals, bucket, tmp_files, firestore,
       an_args, an_pc, an_locals, prompts >>

redact_vars ==
    << redact_input, redacted, redacted_again, redact_pc, applied, permuted >>

endpoint_vars == << ep_args, ep_pc, ep_locals, http_response >>

render_vars == << report_data, rp_pc, text_y, item_no, boxes, shown_pages >>

startup_vars == << env, boot_pc, process, boot_log, requests >>

\* The variables of what surrounds the three pipelines.
other_vars == << endpoint_vars, render_vars, startup_vars >>

vars == << verify_vars, docs_vars, redact_vars, other_vars >>

\* The concurrent process_document requests.
Reqs == { "r1", "r2" }

\* No document-processing request is under way.
DocsIdle ==
    /\ pd_args = [ r \in Reqs |-> Unset ]
    /\ pd_pc = [ r \in Reqs |-> "idle" ]
    /\ pd_locals = [ r \in Reqs |-> Unset ]
    /\ bucket = << >>
    /\ tmp_files = << >>
    /\ firestore = [ r \in Reqs |-> Unset ]
    /\ an_args = Unset
    /\ an_pc = "idle"
    /\ an_locals = Unset
    /\ prompts = << >>

\* No request is at the POST /documents/verify handler.
EndpointIdle ==
    /\ ep_args = Unset
    /\ ep_pc = "idle"
    /\ ep_locals = Unset
    /\ http_response = Unset

\* generate_pdf_report is not running.
RenderIdle ==
    /\ report_data = Unset
    /\ rp_pc = "idle"
    /\ text_y = 0
    /\ item_no = 0
    /\ boxes = << >>
    /\ shown_pages = 0

\* The process under observation is up; its start is not looked at.
StartupIdle ==
    /\ env = { }
    /\ boot_pc = "idle"
    /\ process = "idle"
    /\ boot_log = << >>
    /\ requests = << >>

OtherIdle == EndpointIdle /\ RenderIdle /\ StartupIdle

\* No text is being redacted.
RedactIdle ==
    /\ redact_input = << >>
    /\ redacted = << >>
    /\ redacted_again = << >>
    /\ redact_pc = "idle"
    /\ applied = { }
    /\ permuted = << >>

\* No verification request is under way.
VerifyIdle ==
    /\ filename = ""
    /\ file_content = Unset
    /\ pc = "idle"
    /\ page_num = 0
    /\ full_text = << >>
    /\ extracted_text = ""
    /\ analysis_result = Unset
    /\ redacted_summary = ""
    /\ redacted_extracted_text = ""
    /\ report = Unset
    /\ outcome = "idle"
    /\ calls = << >>
    /\ failed = { }
    /\ stage_log = << >>

\* A request arrives at verify_document.
VerifyInit ==
    /\ filename \in Filenames
    /\ file_content \in FileContents
    /\ pc = "extract"
    /\ page_num = 0
    /\ full_text = << >>
    /\ extracted_text = ""
    /\ analysis_result = Unset
    /\ redacted_summary = ""
    /\ redacted_extracted_text = ""
    /\ report = Unset
    /\ outcome = "running"
    /\ calls = << >>
    /\ failed = { }
    /\ stage_log = << >>

\* The order of verify_document's statements.
StageAfter_RedactFirst(stage) ==
    CASE stage = "extract"        -> "redact_summary"
      [] stage = "redact_summary" -> "redact_text"
      [] stage = "redact_text"    -> "analyze"
      [] stage = "analyze"        -> "assemble"
      [] OTHER                    -> "done"

StageAfter_AnalyzeAgain(stage) ==
    CASE stage = "extract"        -> "analyze"
      [] stage = "analyze"        -> "analyze"
      [] stage = "redact_summary" -> "redact_text"
      [] stage = "redact_text"    -> "assemble"
      [] OTHER                    -> "done"

StageAfter(stage) ==
    CASE stage = "extract"        -> "analyze"
      [] stage = "analyze"        -> "redact_summary"
      [] stage = "redact_summary" -> "redact_text"
      [] stage = "redact_text"    -> "assemble"
      [] OTHER                    -> "done"

\* _extract_text_from_document returns: verify_document goes on to the
\* analysis with `text`; `ok` is FALSE when the except branch produced it.
ExtractReturns(text, ok) ==
    /\ extracted_text' = text
    /\ failed' = IF ok THEN failed ELSE failed \cup { "extraction" }
    /\ stage_log' = Append(stage_log, "extract")
    /\ pc' = StageAfter("extract")

\* The except branch of _extract_text_from_document: the error is logged
\* and "" returned, whatever full_text holds by then.
ExtractionFailedText_Partial(pages) == JoinLines(pages)

ExtractionFailedText(pages) == ""

\* fitz.open(stream=content, filetype="pdf") on a name that ends in .pdf:
\* it raises when the bytes are no PDF, and the except branch returns "".
OpenPdf ==
    /\ UNCHANGED << docs_vars, redact_vars, other_vars >>
    /\ pc = "extract"
    /\ IsPdfName(filename)
    /\ IF IsPdfBytes(file_content)
       THEN /\ pc' = "ocr_pages"
            /\ UNCHANGED << extracted_text, failed, stage_log >>
       ELSE ExtractReturns(ExtractionFailedText(full_text), FALSE)
    /\ UNCHANGED << filename, file_content, page_num, full_text,
                    analysis_result, redacted_summary,
                    redacted_extracted_text, report, outcome, calls >>

\* One turn of the page loop: rasterize the page and send it to OCR.
OcrPage ==
    /\ UNCHANGED << docs_vars, redact_vars, other_vars >>
    /\ pc = "ocr_pages"
    /\ page_num < file_content.pdf_pages
    /\ \E o \in OcrOutcomes :
        /\ calls' = Append(calls, Call("ocr", page_num + 1, ~OcrFails(o)))
        /\ IF OcrFails(o)
           THEN /\ ExtractReturns(ExtractionFailedText(full_text), FALSE)
                /\ UNCHANGED << page_num, full_text >>
           ELSE /\ page_num' = page_num + 1
                /\ full_text' = IF o = "text"
                                THEN Append(full_text, PageText(page_num + 1))
                                ELSE full_text
                /\ UNCHANGED << pc, extracted_text, failed, stage_log >>
    /\ UNCHANGED << filename, file_content, analysis_result, redacted_summary,
                    redacted_extracted_text, report, outcome >>

\* The page loop is over: return "\n".join(full_text).
JoinPages ==
    /\ UNCHANGED << docs_vars, redact_vars, other_vars >>
    /\ pc = "ocr_pages"
    /\ page_num = file_content.pdf_pages
    /\ ExtractReturns(JoinLines(full_text), TRUE)
    /\ UNCHANGED << filename, file_content, page_num, full_text,
                    analysis_result, redacted_summary,
                    redacted_extracted_text, report, outcome, calls >>

\* Any other name: the bytes go to OCR as one image.
OcrImage ==
    /\ UNCHANGED << docs_vars, redact_vars, other_vars >>
    /\ pc = "extract"
    /\ ~IsPdfName(filename)
    /\ \E o \in OcrOutcomes :
        /\ calls' = Append(calls, Call("ocr", 1, ~OcrFails(o)))
        /\ CASE OcrFails(o)  -> ExtractReturns(ExtractionFailedText(full_text), FALSE)
             [] o = "text"   -> ExtractReturns(PageText(1), TRUE)
             [] OTHER        -> ExtractReturns("", TRUE)
    /\ UNCHANGED << filename, file_content, page_num, full_text,
                    analysis_result, redacted_summary,
                    redacted_extracted_text, report, outcome >>

\* analysis_result = self._analyze_text_with_gemini(...).  No request is
\* sent for an empty text.
Analyze ==
    /\ UNCHANGED << docs_vars, redact_vars, other_vars >>
    /\ pc = "analyze"
    /\ \E reply \in AnalysisReplies :
        /\ extracted_text = "" => reply = [ raises |-> TRUE ]
        /\ analysis_result' = _analyze_text_with_gemini(extracted_text, reply)
        /\ IF extracted_text = ""
           THEN UNCHANGED << calls, failed >>
           ELSE /\ calls' = Append(calls, Call("analyze", 0, DOMAIN reply # { "raises" }))
                /\ failed' = IF AnalysisRaises(reply)
                             THEN failed \cup { "analysis" } ELSE failed
    /\ stage_log' = Append(stage_log, "analyze")
    /\ pc' = StageAfter("analyze")
    /\ UNCHANGED << filename, file_content, page_num, full_text,
                    extracted_text, redacted_summary,
                    redacted_extracted_text, report, outcome >>

\* Whether analysis_result.get(...) can be evaluated: json.loads may have
\* returned a value that is no dict.
IsDict(v) == DOMAIN v = { "obj" }

\* verify_document raises: the exception leaves the function.
Raise ==
    /\ outcome' = "raised"
    /\ pc' = "done"

\* The external call of one _redact_sensitive_info(text) and its result.
RedactCall(text, reply) ==
    /\ IF text = ""
       THEN UNCHANGED << calls, failed >>
       ELSE /\ calls' = Append(calls, Call("redact", 0, ~RedactionRaises(reply)))
            /\ failed' = IF RedactionRaises(reply)
                         THEN failed \cup { "redaction" } ELSE failed

\* redacted_summary = self._redact_sensitive_info(analysis_result.get("summary", ""))
RedactSummary ==
    /\ UNCHANGED << docs_vars, redact_vars, other_vars >>
    /\ pc = "redact_summary"
    /\ IF IsDict(analysis_result)
       THEN LET text == DictGet(analysis_result.obj, "summary", "")
            IN \E reply \in RedactionReplies(text) :
                /\ text = "" => RedactionRaises(reply)
                /\ redacted_summary' = _redact_sensitive_info(text, reply)
                /\ RedactCall(text, reply)
                /\ stage_log' = Append(stage_log, "redact_summary")
                /\ pc' = StageAfter("redact_summary")
                /\ UNCHANGED outcome
       ELSE /\ Raise
            /\ UNCHANGED << redacted_summary, calls, failed, stage_log >>
    /\ UNCHANGED << filename, file_content, page_num, full_text,
                    extracted_text, analysis_result,
                    redacted_extracted_text, report >>

\* redacted_extracted_text = self._redact_sensitive_info(extracted_text)
RedactExtractedText ==
    /\ UNCHANGED << docs_vars, redact_vars, other_vars >>
    /\ pc = "redact_text"
    /\ \E reply \in RedactionReplies(extracted_text) :
        /\ extracted_text = "" => RedactionRaises(reply)
        /\ redacted_extracted_text' = _redact_sensitive_info(extracted_text, reply)
        /\ RedactCall(extracted_text, reply)
    /\ stage_log' = Append(stage_log, "redact_text")
    /\ pc' = StageAfter("redact_text")
    /\ UNCHANGED << filename, file_content, page_num, full_text,
                    extracted_text, analysis_result, redacted_summary,
                    report, outcome >>

\* analysis_details_str: a list is newline-joined, anything else goes
\* through str().
DetailsStr(raw) == IF IsJList(raw) THEN JoinLines(raw.list) ELSE raw.str

\* The keyword arguments of the VerificationReport(...) call.
ReportArgs(result) ==
    [ filename            |-> filename,
      verification_status |-> DictGet(result, "status", VerificationStatus.ERROR),
      confidence_score    |-> DictGet(result, "confidence_score", JInt(0)),
      summary             |-> StrOr(redacted_summary, "Analysis could not be completed."),
      analysis_details    |-> DetailsStr(DictGet(result, "details", JStr("No details available."))),
      extracted_text      |-> StrOr(redacted_extracted_text, "No text could be extracted.") ]

\* report = VerificationReport(...); return report
Assemble ==
    /\ UNCHANGED << docs_vars, redact_vars, other_vars >>
    /\ pc = "assemble"
    /\ IF IsDict(analysis_result)
       THEN LET r == VerificationReport(ReportArgs(analysis_result.obj))
            IN IF r = NoReport
               THEN Raise /\ UNCHANGED << report, stage_log >>
               ELSE /\ report' = r
                    /\ outcome' = "returned"
                    /\ stage_log' = Append(stage_log, "assemble")
                    /\ pc' = StageAfter("assemble")
       ELSE Raise /\ UNCHANGED << report, stage_log >>
    /\ UNCHANGED << filename, file_content, page_num, full_text,
                    extracted_text, analysis_result, redacted_summary,
                    redacted_extracted_text, calls, failed >>

VerifyNext ==
    \/ OpenPdf
    \/ OcrPage
    \/ JoinPages
    \/ OcrImage
    \/ Analyze
    \/ RedactSummary
    \/ RedactExtractedText
    \/ Assemble

\* The verification pipeline serving one request.
Init == VerifyInit /\ DocsIdle /\ RedactIdle /\ OtherIdle

Next == VerifyNext

Spec == Init /\ [][Next]_vars

\* ------------------------------------------------- verification: the claims

Returned == pc = "done" /\ outcome = "returned"

StatusOf(r) == r["verification_status"]

\* The redaction call issued after `n` completed stages (2: the summary's,
\* 3: the extracted text's) ended in the except branch.
RedactionFailedAt(n) ==
    \E i \in 1..Len(calls) :
        calls[i].svc = "redact" /\ calls[i].at = n /\ ~calls[i].ok

\* C1: verify_document always returns a VerificationReport and never
\* raises, whatever extraction, analysis and redaction did.
C1_AlwaysReturnsReport ==
    pc = "done" => (outcome = "returned" /\ report # Unset)

\* C2: every returned report carries a confidence_score that is an integer
\* in [0,100] and a verification_status that is one of the four enumerated
\* values.
C2_ScoreAndStatusInRange ==
    Returned =>
        /\ "confidence_score" \in DOMAIN report
        /\ IsJInt(report["confidence_score"])
        /\ report["confidence_score"].int \in 0..100
        /\ StatusOf(report) \in StatusValues

\* The analysis returned a well-formed JSON object whose status is none of
\* the four classifications, by name or by value.
UnrecognizedStatus ==
    /\ analysis_result # Unset
    /\ IsDict(analysis_result)
    /\ "status" \in DOMAIN analysis_result.obj
    /\ analysis_result.obj["status"] \notin StatusValues \cup DOMAIN VerificationStatus

\* C3: a well-formed analysis object with an unrecognized status yields a
\* report whose verification_status is ERROR; it is not rejected with an
\* exception.
C3_UnrecognizedStatusMapsToError ==
    (pc = "done" /\ UnrecognizedStatus) =>
        (outcome = "returned" /\ StatusOf(report) = VerificationStatus.ERROR)

\* C4: when the analysis call fails (unparseable reply, or the model call
\* raises) verify_document returns a report with status ERROR and
\* confidence_score 0, and nothing is raised.
C4_AnalysisFailureAbsorbed ==
    (pc = "done" /\ "analysis" \in failed) =>
        /\ outcome = "returned"
        /\ StatusOf(report) = VerificationStatus.ERROR
        /\ "confidence_score" \in DOMAIN report
        /\ report["confidence_score"] = JInt(0)

\* C5: with empty extracted text verify_document does not abort: the
\* analysis stage still runs, it is handed the empty text and answers with
\* its fixed no-text result, and the report returned has status ERROR and
\* a summary that is not empty.
C5_EmptyTextStillAnalyzed ==
    (pc = "done" /\ extracted_text = "") =>
        /\ outcome = "returned"
        /\ Len(stage_log) >= 2 /\ stage_log[2] = "analyze"
        /\ analysis_result = [ obj |-> NoTextResult ]
        /\ StatusOf(report) = VerificationStatus.ERROR
        /\ report["summary"] # ""

C5_Witness ==
    /\ Returned
    /\ extracted_text = ""
    /\ "extraction" \in failed
    /\ report["summary"] = "OCR failed to extract text."

\* C6 as stated: a failure of any stage short-circuits: the failed external
\* call is the last one issued, and the report never carries a status other
\* than ERROR.
C6_FailureShortCircuits ==
    /\ \A i \in 1..Len(calls) : ~calls[i].ok => i = Len(calls)
    /\ (pc = "done" /\ failed # { }) =>
           (outcome = "returned" /\ StatusOf(report) = VerificationStatus.ERROR)

\* C6 as amended: a failure of extraction or of analysis is absorbed into a
\* returned report with status ERROR, and nothing is skipped: every
\* returned report has passed all five stages in order.
C6_FailureAbsorbedAsError ==
    /\ (pc = "done" /\ failed \cap { "extraction", "analysis" } # { }) =>
           (outcome = "returned" /\ StatusOf(report) = VerificationStatus.ERROR)
    /\ Returned =>
           stage_log = << "extract", "analyze", "redact_summary", "redact_text", "assemble" >>

\* The analysis failed, and a redaction request was still sent afterwards.
C6_Witness ==
    /\ Returned
    /\ "analysis" \in failed
    /\ \E i, j \in 1..Len(calls) :
           i < j /\ calls[i].svc = "analyze" /\ ~calls[i].ok /\ calls[j].svc = "redact"

\* The stages in the order verify_document runs them.
StageOrder == << "extract", "analyze", "redact_summary", "redact_text", "assemble" >>

\* The number of completed stages with which control is at `p`.
StagesDoneAt(p) ==
    CASE p \in { "extract", "ocr_pages" } -> { 0 }
      [] p = "analyze"                     -> { 1 }
      [] p = "redact_summary"              -> { 2 }
      [] p = "redact_text"                 -> { 3 }
      [] p = "assemble"                    -> { 4 }
      [] OTHER                             -> 2..5

\* The number of completed stages with which a call to `svc` is issued.
StagesDoneFor(svc) ==
    CASE svc = "ocr"     -> { 0 }
      [] svc = "analyze" -> { 1 }
      [] OTHER           -> { 2, 3 }

\* C7: the stages of one request run strictly in the order extraction,
\* analysis, redaction, report assembly: every OCR call is made before
\* extraction has completed, the analysis call after extraction and before
\* any redaction, the redaction calls after the analysis, and the report
\* exists only once both redactions have completed.
C7_StagesInOrder ==
    /\ stage_log = SubSeq(StageOrder, 1, Len(stage_log))
    /\ Len(stage_log) \in StagesDoneAt(pc)
    /\ \A i \in 1..Len(calls) : calls[i].at \in StagesDoneFor(calls[i].svc)
    /\ \A i, j \in 1..Len(calls) : i < j => calls[i].at <= calls[j].at
    /\ report # Unset => Len(stage_log) = 5

\* All three kinds of external call were made in one request.
C7_Witness ==
    /\ Returned
    /\ \E i, j, k \in 1..Len(calls) :
           /\ i < j /\ j < k
           /\ calls[i].svc = "ocr" /\ calls[j].svc = "analyze" /\ calls[k].svc = "redact"
    /\ Len(calls) >= 5

\* C9: when a redaction request fails, _redact_sensitive_info returns the
\* fixed degraded text, verify_document still returns a report, and the
\* report field that redaction was for holds the degraded text.
C9_RedactionFailureDegrades ==
    (pc = "done" /\ "redaction" \in failed) =>
        /\ outcome = "returned"
        /\ RedactionFailedAt(2) => report["summary"] = RedactionFailedText
        /\ RedactionFailedAt(3) => report["extracted_text"] = RedactionFailedText

\* ------------------------------------------- process_document: the actions
\* features/documents/service.py.  The bytes of a file are modelled by the
\* text its parser reads from them.

Null == [ null |-> TRUE ]

\* A MIME type "type/subtype".
Mime(t, st) == [ type |-> t, subtype |-> st ]
MimePdf == Mime("application", "pdf")
MimeDocx == Mime("application", "vnd.openxmlformats-officedocument.wordprocessingml.document")
MimeText == Mime("text", "plain")
MimeJpeg == Mime("image", "jpeg")
MimePng == Mime("image", "png")
MimeZip == Mime("application", "zip")

DocTexts ==
    { << "T", "o", " ", "j", "o", "h", "n", "@", "e", "x", "a", "m", "p", "l", "e", ".", "c", "o", "m" >>,
      << "C", "a", "l", "l", " ", "9", "8", "7", "6", "5", "4", "3", "2", "1", "0" >> }

UserIds == { "u1", "u2" }
DocFilenames == { "a.txt", "b.txt" }
DocMimes == { MimePdf, MimeDocx, MimeText, MimeJpeg, MimePng, MimeZip }

\* extract_text_from_file(local_path, mime_type) on a file whose bytes
\* hold `data` in the declared format: the text, or the
\* ValueError(f"Unsupported file type: {mime_type}").
extract_text_from_file(data, mime_type) ==
    IF mime_type = MimePdf THEN [ text |-> data ]
    ELSE IF mime_type = MimeDocx THEN [ text |-> data ]
    ELSE IF mime_type.type = "text" THEN [ text |-> data ]
    ELSE [ error |-> "ValueError", mime |-> mime_type ]

Extracted(r) == DOMAIN r = { "text" }

\* gcs_path = f"docs/{filename}"
GcsPath(user_id, name) == "docs/" \o name

\* local_path = os.path.join(tempfile.gettempdir(), filename)
LocalPath(name) == "/tmp/" \o name

\* The store `f` with `v` written at key `k`.
Put(f, k, v) == [ x \in DOMAIN f \cup { k } |-> IF x = k THEN v ELSE f[x] ]

\* What a prompt to the language model carries: the task, the text put in
\* the prompt, and the extracted text that text was made from.
Prompt(req, task, text, raw) ==
    [ req |-> req, task |-> task, text |-> text, raw |-> raw ]

\* Two process_document requests arrive.  The first is named u1, a.txt;
\* the second may share the user, the filename and the content or not.
ProcessInit ==
    /\ pd_args \in [ Reqs -> [ user_id : UserIds, filename : DocFilenames,
                               file_data : DocTexts, mime_type : DocMimes ] ]
    /\ pd_args["r1"].user_id = "u1"
    /\ pd_args["r1"].filename = "a.txt"
    /\ pd_pc = [ r \in Reqs |-> "upload" ]
    /\ pd_locals = [ r \in Reqs |->
                       [ content |-> << >>, redacted_content |-> << >>,
                         summary |-> Null, risk_result |-> Null,
                         error |-> Null ] ]
    /\ bucket = << >>
    /\ tmp_files = << >>
    /\ firestore = [ r \in Reqs |-> Unset ]
    /\ an_args = Unset
    /\ an_pc = "idle"
    /\ an_locals = Unset
    /\ prompts = << >>

PdGoto(r, to) == pd_pc' = [ pd_pc EXCEPT ![r] = to ]

\* The exception `e` leaves process_document.
PdRaise(r, e) ==
    /\ pd_pc' = [ pd_pc EXCEPT ![r] = "failed" ]
    /\ pd_locals' = [ pd_locals EXCEPT ![r].error = e ]

\* The HTTPException upload_file_to_gcs and download_file_from_gcs raise.
StorageError == [ error |-> "HTTPException", status_code |-> 500 ]

\* What a failed generate_content call raises.
ModelError == [ error |-> "GoogleAPIError" ]

\* gcs_url = upload_file_to_gcs(file_data, gcs_path, mime_type); a failure
\* of the store leaves as HTTPException 500.
Upload(r) ==
    /\ pd_pc[r] = "upload"
    /\ \/ /\ bucket' = Put(bucket, GcsPath(pd_args[r].user_id, pd_args[r].filename),
                           pd_args[r].file_data)
          /\ PdGoto(r, "set_metadata")
          /\ UNCHANGED pd_locals
       \/ /\ PdRaise(r, StorageError)
          /\ UNCHANGED bucket
    /\ UNCHANGED << pd_args, tmp_files, firestore, an_args, an_pc,
                    an_locals, prompts, verify_vars, redact_vars,
                    other_vars >>

\* What a failed Firestore call (doc_ref.set, doc_ref.update) raises;
\* process_document catches nothing.
FirestoreError == [ error |-> "GoogleAPICallError" ]

\* The record doc_ref.set writes: both analysis fields None.
InitialMetadata(r) ==
    [ user_id       |-> pd_args[r].user_id,
      filename      |-> pd_args[r].filename,
      mime_type     |-> pd_args[r].mime_type,
      gcs_path      |-> GcsPath(pd_args[r].user_id, pd_args[r].filename),
      ai_summary    |-> Null,
      risk_analysis |-> Null ]

\* doc_ref = db.collection("users").document(user_id)
\*              .collection("documents").document(); doc_ref.set({...})
\* A failed write leaves no record.
SetMetadata(r) ==
    /\ pd_pc[r] = "set_metadata"
    /\ \/ /\ firestore' = [ firestore EXCEPT ![r] = InitialMetadata(r) ]
          /\ PdGoto(r, "download")
          /\ UNCHANGED pd_locals
       \/ /\ PdRaise(r, FirestoreError)
          /\ UNCHANGED firestore
    /\ UNCHANGED << pd_args, bucket, tmp_files, an_args, an_pc,
                    an_locals, prompts, verify_vars, redact_vars,
                    other_vars >>

\* download_file_from_gcs(gcs_path, local_path)
Download(r) ==
    /\ pd_pc[r] = "download"
    /\ LET path == GcsPath(pd_args[r].user_id, pd_args[r].filename)
       IN \/ /\ path \in DOMAIN bucket
             /\ tmp_files' = Put(tmp_files, LocalPath(pd_args[r].filename), bucket[path])
             /\ PdGoto(r, "extract")
             /\ UNCHANGED pd_locals
          \/ /\ PdRaise(r, StorageError)
             /\ UNCHANGED tmp_files
    /\ UNCHANGED << pd_args, bucket, firestore, an_args, an_pc,
                    an_locals, prompts, verify_vars, redact_vars,
                    other_vars >>

\* content = extract_text_from_file(local_path, mime_type)
\* redacted_content = redact_text(content)
ExtractAndRedact(r) ==
    /\ pd_pc[r] = "extract"
    /\ LET got == extract_text_from_file(tmp_files[LocalPath(pd_args[r].filename)],
                                         pd_args[r].mime_type)
       IN IF Extracted(got)
          THEN /\ pd_locals' = [ pd_locals EXCEPT
                                   ![r].content = got.text,
                                   ![r].redacted_content = redact_text(got.text) ]
               /\ PdGoto(r, "summary")
          ELSE PdRaise(r, got)
    /\ UNCHANGED << pd_args, bucket, tmp_files, firestore, an_args, an_pc,
                    an_locals, prompts, verify_vars, redact_vars,
                    other_vars >>

\* summary_response = model_summary.generate_content(
\*     f"Summarize this {document_type} document:\n{redacted_content}")
Summarize(r) ==
    /\ pd_pc[r] = "summary"
    /\ prompts' = Append(prompts, Prompt(r, "summary", pd_locals[r].redacted_content,
                                         pd_locals[r].content))
    /\ \/ /\ pd_locals' = [ pd_locals EXCEPT ![r].summary =
                              [ summary_of |-> pd_locals[r].redacted_content ] ]
          /\ PdGoto(r, "risk")
       \/ PdRaise(r, ModelError)
    /\ UNCHANGED << pd_args, bucket, tmp_files, firestore, an_args, an_pc,
                    an_locals, verify_vars, redact_vars,
                    other_vars >>

\* risk_response = model_risk.generate_content(
\*     f"Analyze legal risks in this {document_type} document:\n{redacted_content}")
AnalyzeRisk(r) ==
    /\ pd_pc[r] = "risk"
    /\ prompts' = Append(prompts, Prompt(r, "risk", pd_locals[r].redacted_content,
                                         pd_locals[r].content))
    /\ \/ /\ pd_locals' = [ pd_locals EXCEPT ![r].risk_result =
                              [ issues_of |-> pd_locals[r].redacted_content ] ]
          /\ PdGoto(r, "update")
       \/ PdRaise(r, ModelError)
    /\ UNCHANGED << pd_args, bucket, tmp_files, firestore, an_args, an_pc,
                    an_locals, verify_vars, redact_vars,
                    other_vars >>

\* The final update with its two fields written one after the other: the
\* record after the first of the two writes.
FinalUpdate_SummaryFirst(rec, summary, risk_result) ==
    [ rec EXCEPT !.ai_summary = summary ]

\* The record after doc_ref.update({"ai_summary": summary, ...,
\* "risk_analysis": risk_result}): one write sets both fields.
FinalUpdate(rec, summary, risk_result) ==
    [ rec EXCEPT !.ai_summary = summary, !.risk_analysis = risk_result ]

\* doc_ref.update({...}) and the return; a failed update writes nothing.
UpdateMetadata(r) ==
    /\ pd_pc[r] = "update"
    /\ \/ /\ firestore' = [ firestore EXCEPT ![r] =
                               FinalUpdate(firestore[r], pd_locals[r].summary,
                                           pd_locals[r].risk_result) ]
          /\ PdGoto(r, "returned")
          /\ UNCHANGED pd_locals
       \/ /\ PdRaise(r, FirestoreError)
          /\ UNCHANGED firestore
    /\ UNCHANGED << pd_args, bucket, tmp_files, an_args, an_pc,
                    an_locals, prompts, verify_vars, redact_vars,
                    other_vars >>

process_document(r) ==
    \/ Upload(r)
    \/ SetMetadata(r)
    \/ Download(r)
    \/ ExtractAndRedact(r)
    \/ Summarize(r)
    \/ AnalyzeRisk(r)
    \/ UpdateMetadata(r)

\* ------------------------------------- POST /documents/analyze: the actions
\* features/documents/router.py.

AnalyzeDocTypes == { "pdf", "PDF", "docx" }

\* str.lower() on the document types above.
LowerCase(t) == IF t = "PDF" THEN "pdf" ELSE t

\* An upload arrives at analyze_document: its text, whether its bytes are a
\* PDF, the document_type form field and the upload's content type.
AnalyzeInit ==
    /\ an_args \in [ file_text : DocTexts, is_pdf : BOOLEAN,
                     document_type : AnalyzeDocTypes,
                     content_type : { MimePdf, MimeText, MimeZip } ]
    /\ an_pc = "check_type"
    /\ an_locals = [ text |-> << >>, redacted_text |-> << >>,
                     summary |-> Null, risks |-> Null ]
    /\ prompts = << >>
    /\ pd_args = [ r \in Reqs |-> Unset ]
    /\ pd_pc = [ r \in Reqs |-> "idle" ]
    /\ pd_locals = [ r \in Reqs |-> Unset ]
    /\ bucket = << >>
    /\ tmp_files = << >>
    /\ firestore = [ r \in Reqs |-> Unset ]

\* if document_type.lower() != "pdf": return {"error": ...}
AnCheckType ==
    /\ an_pc = "check_type"
    /\ an_pc' = IF LowerCase(an_args.document_type) # "pdf"
                THEN "returned_error" ELSE "read_pdf"
    /\ UNCHANGED << an_args, an_locals, prompts, pd_args, pd_pc, pd_locals,
                    bucket, tmp_files, firestore, verify_vars, redact_vars,
                    other_vars >>

\* read_pdf(file): every page's text followed by "\n"; bytes PyPDF2 cannot
\* read raise ValueError, which the handler turns into HTTP 400.
read_pdf(file_text, is_pdf) ==
    IF is_pdf THEN [ text |-> file_text \o << "\n" >> ]
    ELSE [ error |-> "ValueError" ]

\* text = read_pdf(file.file)
AnReadPdf ==
    /\ an_pc = "read_pdf"
    /\ LET got == read_pdf(an_args.file_text, an_args.is_pdf)
       IN IF Extracted(got)
          THEN /\ an_locals' = [ an_locals EXCEPT !.text = got.text ]
               /\ an_pc' = "redact"
          ELSE /\ an_pc' = "failed"
               /\ UNCHANGED an_locals
    /\ UNCHANGED << an_args, prompts, pd_args, pd_pc, pd_locals,
                    bucket, tmp_files, firestore, verify_vars, redact_vars,
                    other_vars >>

\* parse_and_redact as the router calls it, parse_and_redact(file.file,
\* file.content_type): extract_text_from_file, then redact_text.  The first
\* argument is the open upload, not a path: pdfplumber.open reads it,
\* open(local_path, "r") raises TypeError on it.
parse_and_redact(file_text, mime_type) ==
    LET got == extract_text_from_file(file_text, mime_type)
    IN IF Extracted(got) /\ mime_type = MimePdf
       THEN [ text |-> redact_text(got.text) ]
       ELSE [ error |-> "ValueError or TypeError" ]

\* redacted_text = parse_and_redact(file.file, file.content_type)
AnRedact ==
    /\ an_pc = "redact"
    /\ LET got == parse_and_redact(an_args.file_text, an_args.content_type)
       IN IF Extracted(got)
          THEN /\ an_locals' = [ an_locals EXCEPT !.redacted_text = got.text ]
               /\ an_pc' = "summarize"
          ELSE /\ an_pc' = "failed"
               /\ UNCHANGED an_locals
    /\ UNCHANGED << an_args, prompts, pd_args, pd_pc, pd_locals,
                    bucket, tmp_files, firestore, verify_vars, redact_vars,
                    other_vars >>

\* The text analyze_document hands to summarize_document and check_risk.
AnalyzedText == an_locals.text

\* summary = summarize_document(text); call_gemini raises ValueError on a
\* reply other than 200.
AnSummarize ==
    /\ an_pc = "summarize"
    /\ prompts' = Append(prompts, Prompt("analyze", "summary", AnalyzedText, an_locals.text))
    /\ \/ /\ an_locals' = [ an_locals EXCEPT !.summary = [ summary_of |-> AnalyzedText ] ]
          /\ an_pc' = "risk"
       \/ /\ an_pc' = "failed"
          /\ UNCHANGED an_locals
    /\ UNCHANGED << an_args, pd_args, pd_pc, pd_locals,
                    bucket, tmp_files, firestore, verify_vars, redact_vars,
                    other_vars >>

\* risks = check_risk(text), and the return.
AnCheckRisk ==
    /\ an_pc = "risk"
    /\ prompts' = Append(prompts, Prompt("analyze", "risk", AnalyzedText, an_locals.text))
    /\ \/ /\ an_locals' = [ an_locals EXCEPT !.risks = [ issues_of |-> AnalyzedText ] ]
          /\ an_pc' = "returned"
       \/ /\ an_pc' = "failed"
          /\ UNCHANGED an_locals
    /\ UNCHANGED << an_args, pd_args, pd_pc, pd_locals,
                    bucket, tmp_files, firestore, verify_vars, redact_vars,
                    other_vars >>

analyze_document ==
    \/ AnCheckType
    \/ AnReadPdf
    \/ AnRedact
    \/ AnSummarize
    \/ AnCheckRisk

\* The document pipeline: either two concurrent process_document requests,
\* or one request to /documents/analyze (the two share no state).
DocsInit == VerifyIdle /\ RedactIdle /\ OtherIdle /\ (ProcessInit \/ AnalyzeInit)

DocsNext ==
    \/ \E r \in Reqs : process_document(r)
    \/ analyze_document

SpecDocs == DocsInit /\ [][DocsNext]_vars

\* C8: every text sent to the language model for summarization or risk
\* analysis is the redactor's output for the extracted text, never the raw
\* extracted text.
C8_OnlyRedactedTextSent ==
    \A i \in 1..Len(prompts) : prompts[i].text = redact_text(prompts[i].raw)

\* ------------------------------------------------ redact_text: the actions

\* The pieces the input texts are put together from: one match of every
\* rule, plain words, and separators.
Fragments ==
    { << "j", "o", "h", "n", "@", "e", "x", "a", "m", "p", "l", "e", ".", "c", "o", "m" >>,
      << "9", "8", "7", "6", "5", "4", "3", "2", "1", "0" >>,
      << "A", "B", "C", "D", "E", "1", "2", "3", "4", "F" >>,
      << "5", "6", "0", "0", "0", "1" >>,
      << "1", "2", "3", "4", " ", "5", "6", "7", "8", " ", "9", "0", "1", "2" >>,
      << "F", "l", "a", "t", " ", "1", "2", "B" >>,
      << "N", "o", ".", "7" >>,
      << "M", "G", " ", "R", "o", "a", "d" >>,
      << "M", "G", " ", "R", "o", "a", "d", ",", " ", "P", "u", "n", "e", " ", "4", "1", "1", "0", "0", "1" >>,
      << "I", "n", "v", "o", "i", "c", "e", " ", "t", "o", ":", " " >>,
      << ",", " ", "p", "h", "o", "n", "e", " " >>,
      << " " >>,
      << "\n" >> }

RECURSIVE Concat(_)
Concat(fs) == IF Len(fs) = 0 THEN << >> ELSE Head(fs) \o Concat(Tail(fs))

\* Every text of one to MaxFragments fragments.
Texts ==
    UNION { { Concat(fs) : fs \in [ 1..n -> Fragments ] } : n \in 1..MaxFragments }

RedactInit ==
    /\ VerifyIdle
    /\ DocsIdle
    /\ OtherIdle
    /\ redact_input \in Texts
    /\ redacted = << >>
    /\ redacted_again = << >>
    /\ redact_pc = "input"
    /\ applied = { }
    /\ permuted = redact_input

\* redact_text(text)
Redact ==
    /\ redact_pc = "input"
    /\ redacted' = redact_text(redact_input)
    /\ redact_pc' = "once"
    /\ UNCHANGED << redact_input, redacted_again, applied, permuted,
                    verify_vars, docs_vars, other_vars >>

\* redact_text on the text redact_text returned
RedactAgain ==
    /\ redact_pc = "once"
    /\ redacted_again' = redact_text(redacted)
    /\ redact_pc' = "twice"
    /\ UNCHANGED << redact_input, redacted, applied, permuted,
                    verify_vars, docs_vars, other_vars >>

\* The keys of `patterns`.
Rules == { patterns[i] : i \in 1..Len(patterns) }

\* One turn of redact_text's loop when `patterns` is declared in another
\* order: text = re.sub(pattern, "[HIDDEN]", text) for a rule that has not
\* had its turn.  The loop ends when every rule has had one.
ApplyRule ==
    /\ redact_pc \in { "once", "permuting" }
    /\ \E rule \in Rules \ applied :
        /\ permuted' = re_sub(rule, permuted)
        /\ applied' = applied \cup { rule }
        /\ redact_pc' = IF applied \cup { rule } = Rules
                        THEN "permuted" ELSE "permuting"
    /\ UNCHANGED << redact_input, redacted, redacted_again,
                    verify_vars, docs_vars, other_vars >>

RedactNext == Redact \/ RedactAgain \/ ApplyRule

\* The pattern redactor applied to a text and to its own output, and its
\* rules applied to the text in every order.
SpecRedact == RedactInit /\ [][RedactNext]_vars

\* C10: the pattern redactor is idempotent: redacting the output of
\* redact_text again changes nothing.
C10_RedactIdempotent ==
    redact_pc = "twice" => redacted_again = redacted

\* C11: applying the seven rules in any permutation gives the output of
\* redact_text, which applies them in declaration order.
C11_RuleOrderIndependent ==
    redact_pc = "permuted" => permuted = redacted

\* The matches re.sub(pattern, ...) finds for `rule` in s from position i
\* on, each as << first position, position after the last >>.
RECURSIVE MatchesFrom(_, _, _)
MatchesFrom(rule, s, i) ==
    IF i > Len(s) THEN << >>
    ELSE LET e == Match(rule, s, i)
         IN IF e > 0 THEN << << i, e >> >> \o MatchesFrom(rule, s, e)
            ELSE MatchesFrom(rule, s, i + 1)

\* The substrings of the input text that some rule matches.
MatchedSubstrings(s) ==
    UNION { { SubSeq(s, m[1], m[2] - 1) :
                m \in { MatchesFrom(rule, s, 1)[k] :
                          k \in 1..Len(MatchesFrom(rule, s, 1)) } } :
            rule \in Rules }

\* The number of matches all rules find in the input text.
RECURSIVE TotalMatches(_, _)
TotalMatches(order, s) ==
    IF Len(order) = 0 THEN 0
    ELSE Len(MatchesFrom(Head(order), s, 1)) + TotalMatches(Tail(order), s)

\* Whether w occurs in s.
Occurs(w, s) == \E i \in 1..Len(s) : StartsWith(s, i, w)

\* The number of [HIDDEN] tokens in s.
CountTokens(s) == Cardinality({ i \in 1..Len(s) : StartsWith(s, i, HIDDEN) })

\* C12: the output of redact_text holds no substring a rule matched in the
\* input, and as many [HIDDEN] tokens as the rules had matches in the input.
C12_MatchesGoneAndCounted ==
    redact_pc # "input" =>
        /\ \A w \in MatchedSubstrings(redact_input) : ~Occurs(w, redacted)
        /\ CountTokens(redacted) = TotalMatches(patterns, redact_input)

\* ------------------------------------------------ the extractors: the claims

\* The formats the Text Extractor is to support.
SupportedMimes == { MimePdf, MimeDocx, MimeJpeg, MimePng, MimeText }

\* The MIME type that goes with a file name's extension.
MimeOfName(name) ==
    CASE IsPdfName(name)    -> MimePdf
      [] name = "scan.png"  -> MimePng
      [] OTHER              -> MimeZip

\* The error extract_text_from_file raises for a type it does not handle.
UnsupportedFormat(m) == [ error |-> "ValueError", mime |-> m ]

\* The statements of process_document behind a returned extraction.
AfterExtract == { "summary", "risk", "update", "returned" }

\* C13: an extractor handed a type outside the supported set fails with
\* the unsupported-format error naming the type and returns no text; handed
\* a supported type it does not raise that error.  First conjunct:
\* extract_text_from_file; second: _extract_text_from_document.
C13_UnsupportedMimeRejected ==
    /\ \A r \in Reqs :
         pd_args[r] # Unset =>
            LET m == pd_args[r].mime_type
            IN IF m \in SupportedMimes
               THEN pd_locals[r].error # UnsupportedFormat(m)
               ELSE /\ pd_pc[r] \notin AfterExtract
                    /\ pd_locals[r].error \in { Null, StorageError, FirestoreError,
                                              UnsupportedFormat(m) }
    /\ (pc # "idle" /\ MimeOfName(filename) \notin SupportedMimes) =>
         \A i \in 1..Len(stage_log) : stage_log[i] # "extract"

\* The request is a PDF whose extraction has returned.
PdfExtracted ==
    /\ IsPdfName(filename)
    /\ IsPdfBytes(file_content)
    /\ Len(stage_log) >= 1

\* The OCR calls of the page loop: call i is the one for page i.
OcrCalls == SelectSeq(calls, LAMBDA c : c.svc = "ocr")

SomePageFailed == \E i \in 1..Len(OcrCalls) : ~OcrCalls[i].ok

\* `texts` holds texts of pages 1..n, each page at most once, in page order.
InPageOrder(texts, n) ==
    \E page \in [ 1..Len(texts) -> 1..n ] :
        /\ \A i \in 1..Len(texts) : texts[i] = PageText(page[i])
        /\ \A i, j \in 1..Len(texts) : i < j => page[i] < page[j]

\* C14: when OCR fails on a page of a PDF the extraction ends in its
\* failure branch and returns none of the text of the pages read before;
\* when no page fails, every page was sent once and the result is the page
\* texts joined in page order.
C14_NoPartialExtraction ==
    PdfExtracted =>
        IF SomePageFailed
        THEN /\ "extraction" \in failed
             /\ extracted_text = ""
        ELSE /\ "extraction" \notin failed
             /\ Len(OcrCalls) = file_content.pdf_pages
             /\ \A i \in 1..Len(OcrCalls) : OcrCalls[i].page = i
             /\ InPageOrder(full_text, file_content.pdf_pages)
             /\ extracted_text = JoinLines(full_text)

\* A page was read, the page after it failed, and the extraction returned.
C14_Witness ==
    /\ PdfExtracted
    /\ Len(OcrCalls) >= 2
    /\ OcrCalls[1].ok
    /\ ~OcrCalls[Len(OcrCalls)].ok
    /\ full_text # << >>

\* ---------------------------------------- process_document: the claims

\* Both requests are process_document calls, for different documents.
DifferentDocuments ==
    /\ \A r \in Reqs : pd_args[r] # Unset
    /\ \/ pd_args["r1"].user_id # pd_args["r2"].user_id
       \/ pd_args["r1"].file_data # pd_args["r2"].file_data

\* The statements of process_document behind a returned upload.
AfterUpload == { "set_metadata", "download", "extract" } \cup AfterExtract

\* C15: two concurrent process_document requests for different documents
\* do not touch each other: the object a request stored and the temp file
\* it downloaded hold what it uploaded, and what it extracts and sends to
\* the model comes from its own upload.
C15_ConcurrentRequestsIndependent ==
    DifferentDocuments =>
        /\ \A r \in Reqs :
             LET a == pd_args[r]
             IN /\ pd_pc[r] \in AfterUpload =>
                     bucket[GcsPath(a.user_id, a.filename)] = a.file_data
                /\ pd_pc[r] = "extract" =>
                     tmp_files[LocalPath(a.filename)] = a.file_data
                /\ pd_pc[r] \in AfterExtract =>
                     /\ pd_locals[r].content = a.file_data
                     /\ pd_locals[r].redacted_content = redact_text(a.file_data)
        /\ \A i \in 1..Len(prompts) :
             prompts[i].text = redact_text(pd_args[prompts[i].req].file_data)

\* The path the storage layout gives user u's file f.
UserPath(u, f) == "docs/" \o u \o "/" \o f

\* C16: every object process_document stores for user u and filename f is
\* at docs/u/f, so that the objects of two users never share a path.
C16_ObjectsUnderUserPath ==
    /\ \A r \in Reqs :
         pd_pc[r] \in AfterUpload =>
            UserPath(pd_args[r].user_id, pd_args[r].filename) \in DOMAIN bucket
    /\ \A path \in DOMAIN bucket :
         \E r \in Reqs :
            /\ pd_args[r] # Unset
            /\ path = UserPath(pd_args[r].user_id, pd_args[r].filename)
    /\ \A r, q \in Reqs :
         ( /\ pd_pc[r] \in AfterUpload
           /\ pd_pc[q] \in AfterUpload
           /\ pd_args[r].user_id # pd_args[q].user_id ) =>
            firestore[r] = Unset \/ firestore[q] = Unset
                \/ firestore[r].gcs_path # firestore[q].gcs_path

\* ------------------------------------- POST /documents/verify: the actions
\* features/verification/router.py, verify_document_endpoint.

LANGUAGE_CODE_MAP ==
    [ English |-> "en", Hindi |-> "hi", Bengali |-> "bn", Marathi |-> "mr",
      Telugu |-> "te", Tamil |-> "ta", Gujarati |-> "gu", Kannada |-> "kn",
      Malayalam |-> "ml", Punjabi |-> "pa" ]

\* The keyword arguments of the handler's verification_service.verify_document(...)
\* call, and the parameters verify_document(self, ...) declares (none has a
\* default, none is **kwargs).
EndpointKwargs ==
    { "file_content", "filename", "description", "output_language", "user_id" }

VerifyDocumentParams == { "file_content", "filename", "description" }

\* Python binds a call when every keyword names a parameter and every
\* parameter without a default gets a value; otherwise it raises TypeError
\* before the function body runs.
CallBinds(kwargs, params) == kwargs \subseteq params /\ params \subseteq kwargs

\* The handler's `except Exception as e`: HTTPException with status 500.
InternalError(e) == [ status_code |-> 500, detail |-> e ]

\* StreamingResponse(pdf_buffer, media_type="application/pdf", ...)
PdfResponse == [ status_code |-> 200, media_type |-> "application/pdf" ]

\* A multipart request arrives at the handler; FastAPI has validated the
\* form fields.
EndpointInit ==
    /\ ep_args \in [ filename : Filenames,
                      output_language : DOMAIN LANGUAGE_CODE_MAP,
                      user_id : UserIds ]
    /\ ep_pc = "language"
    /\ ep_locals = [ language_code |-> Null, file_content |-> Null ]
    /\ http_response = Unset

EpRespond(r) ==
    /\ http_response' = r
    /\ ep_pc' = "responded"

\* language_code = LANGUAGE_CODE_MAP[output_language.value]
EpLanguage ==
    /\ ep_pc = "language"
    /\ ep_locals' = [ ep_locals EXCEPT
                        !.language_code = LANGUAGE_CODE_MAP[ep_args.output_language] ]
    /\ ep_pc' = "read"
    /\ UNCHANGED << ep_args, http_response, verify_vars, docs_vars, redact_vars,
                    render_vars, startup_vars >>

\* file_content = await file.read(): the bytes, or the read fails.
EpReadFile ==
    /\ ep_pc = "read"
    /\ \/ /\ ep_locals' = [ ep_locals EXCEPT !.file_content = [ bytes |-> ep_args.filename ] ]
          /\ ep_pc' = "call_verify"
          /\ UNCHANGED http_response
       \/ /\ EpRespond(InternalError("OSError"))
          /\ UNCHANGED ep_locals
    /\ UNCHANGED << ep_args, verify_vars, docs_vars, redact_vars,
                    render_vars, startup_vars >>

\* report_data = verification_service.verify_document(file_content=...,
\*     filename=..., description=..., output_language=..., user_id=...)
\* When the call binds, verify_document runs and generate_pdf_report
\* renders its report; when it does not, the TypeError goes to the except
\* branch.
EpCallVerify ==
    /\ ep_pc = "call_verify"
    /\ IF CallBinds(EndpointKwargs, VerifyDocumentParams)
       THEN /\ ep_pc' = "in_verify_document"
            /\ UNCHANGED http_response
       ELSE EpRespond(InternalError("TypeError"))
    /\ UNCHANGED << ep_args, ep_locals, verify_vars, docs_vars, redact_vars,
                    render_vars, startup_vars >>

verify_document_endpoint ==
    \/ EpLanguage
    \/ EpReadFile
    \/ EpCallVerify

\* ------------------------------------------- generate_pdf_report: the actions
\* Lengths are in points; y runs upwards from the bottom edge of the page.

\* reportlab.lib.units.inch and the height of reportlab.lib.pagesizes.letter
inch == 72
PageHeight == 792

\* style_body.leading = 14: the height of one line of a Paragraph.
Leading == 14

\* The report_items rows: filename, status, confidence score, summary.
ReportItems == << "filename", "verification_status", "confidence_score", "summary" >>

\* The reports handed to the renderer, by what the layout depends on: how
\* many lines each value wraps to, and whether the object has the
\* confidence_score attribute (a VerificationReport has not).
ReportDatas ==
    [ has_confidence_score : BOOLEAN,
      summary_lines : 1..MaxSummaryLines,
      details_lines : 1..MaxDetailsLines ]

\* The lines Paragraph(value, style_body) wraps to for a row's value.
LinesOf(d, item) == IF item = "summary" THEN d.summary_lines ELSE 1

\* p.wrapOn(...)[1]: the height of a Paragraph of n lines.
ParagraphHeight(n) == n * Leading

\* Something drawn on the page under work: its lower and upper edge.
Box(what, bottom, top) ==
    [ what |-> what, page |-> shown_pages + 1, bottom |-> bottom, top |-> top ]

\* generate_pdf_report(report_data) is called.
RenderInit ==
    /\ report_data \in ReportDatas
    /\ rp_pc = "title"
    /\ text_y = 0
    /\ item_no = 0
    /\ boxes = << >>
    /\ shown_pages = 0

\* c.drawString(inch, height - inch, "Document Verification Report") and
\* the rule under it.
DrawTitle ==
    /\ rp_pc = "title"
    /\ boxes' = Append(boxes, Box("title", PageHeight - inch - 5, PageHeight - inch + 16))
    /\ rp_pc' = "items"
    /\ UNCHANGED << report_data, text_y, item_no, shown_pages,
                    verify_vars, docs_vars, redact_vars, endpoint_vars, startup_vars >>

\* report_items = [...]: reading report_data.confidence_score raises
\* AttributeError on an object without it.  text_y = height - 1.5 * inch
BuildItems ==
    /\ rp_pc = "items"
    /\ IF report_data.has_confidence_score
       THEN /\ text_y' = PageHeight - (3 * inch) \div 2
            /\ rp_pc' = "rows"
       ELSE /\ rp_pc' = "raised"
            /\ UNCHANGED text_y
    /\ UNCHANGED << report_data, item_no, boxes, shown_pages,
                    verify_vars, docs_vars, redact_vars, endpoint_vars, startup_vars >>

\* One turn of `for label, value in report_items`: the label at text_y,
\* the value's Paragraph with its lower edge at text_y - p_height/2 + 2,
\* then text_y -= p_height + 0.25 * inch.
DrawRow ==
    /\ rp_pc = "rows"
    /\ item_no < Len(ReportItems)
    /\ LET p_height == ParagraphHeight(LinesOf(report_data, ReportItems[item_no + 1]))
           y == text_y - p_height \div 2 + 2
       IN /\ boxes' = Append(boxes, Box(ReportItems[item_no + 1],
                                         IF y < text_y THEN y ELSE text_y,
                                         y + p_height))
          /\ text_y' = text_y - (p_height + inch \div 4)
    /\ item_no' = item_no + 1
    /\ UNCHANGED << report_data, rp_pc, shown_pages,
                    verify_vars, docs_vars, redact_vars, endpoint_vars, startup_vars >>

\* The "Analysis Details:" label at text_y, text_y -= 0.25 * inch, and the
\* details Paragraph with its lower edge at text_y - p_height_details.
DrawDetails ==
    /\ rp_pc = "rows"
    /\ item_no = Len(ReportItems)
    /\ LET p_height_details == ParagraphHeight(report_data.details_lines)
           y == text_y - inch \div 4
       IN /\ boxes' = boxes \o << Box("details_label", text_y, text_y + 11),
                                   Box("details", y - p_height_details, y) >>
          /\ text_y' = y
    /\ rp_pc' = "show_page"
    /\ UNCHANGED << report_data, item_no, shown_pages,
                    verify_vars, docs_vars, redact_vars, endpoint_vars, startup_vars >>

\* c.showPage(); c.save(); return buffer
ShowPage ==
    /\ rp_pc = "show_page"
    /\ shown_pages' = shown_pages + 1
    /\ rp_pc' = "returned"
    /\ UNCHANGED << report_data, text_y, item_no, boxes,
                    verify_vars, docs_vars, redact_vars, endpoint_vars, startup_vars >>

generate_pdf_report ==
    \/ DrawTitle
    \/ BuildItems
    \/ DrawRow
    \/ DrawDetails
    \/ ShowPage

\* One request at the handler, or one call of the renderer.
ReportInit ==
    /\ VerifyIdle /\ DocsIdle /\ RedactIdle /\ StartupIdle
    /\ \/ EndpointInit /\ RenderIdle
       \/ EndpointIdle /\ RenderInit

ReportNext == verify_document_endpoint \/ generate_pdf_report

\* The report endpoint serving one request, and the renderer at work.
SpecReport == ReportInit /\ [][ReportNext]_vars

\* C17: the handler answers 500 only after an infrastructure failure; when
\* the upload was read and no stage failed, it answers with the PDF report.
C17_ServerErrorOnlyOnInfrastructureFailure ==
    ep_pc = "responded" =>
        IF ep_locals.file_content = Null
        THEN http_response.status_code = 500
        ELSE http_response = PdfResponse

\* ------------------------------------------- verification: external calls

\* The calls verify_document has issued to service `svc`.
CallsTo(svc) == SelectSeq(calls, LAMBDA c : c.svc = svc)

\* C18: nothing is retried during one verify_document call: at most one
\* analysis request, at most one request per redaction invocation, every
\* PDF page sent to OCR at most once, and no call issued again after it
\* failed (after a failed OCR call no page is sent any more).
C18_NoRetry ==
    /\ Len(CallsTo("analyze")) <= 1
    /\ Len(CallsTo("redact")) <= 2
    /\ \A i, j \in 1..Len(calls) :
         i < j =>
            /\ (calls[i].svc = "redact" /\ calls[j].svc = "redact") =>
                  calls[i].at # calls[j].at
            /\ (calls[i].svc = "ocr" /\ calls[j].svc = "ocr") =>
                  calls[i].page # calls[j].page /\ calls[i].ok
            /\ ~calls[i].ok =>
                  ~( /\ calls[j].svc = calls[i].svc
                     /\ calls[j].page = calls[i].page
                     /\ calls[j].at = calls[i].at )

\* A request that ended after two pages were read, the analysis request
\* failed and a redaction request failed.
C18_Witness ==
    /\ pc = "done"
    /\ Len(CallsTo("ocr")) = 2
    /\ \E i \in 1..Len(calls) : calls[i].svc = "analyze" /\ ~calls[i].ok
    /\ \E i \in 1..Len(calls) : calls[i].svc = "redact" /\ ~calls[i].ok

\* ------------------------------------------------ the process: its start
\* main.py imports the routers; importing a router runs the module-level
\* code of its service and of core/gcs.py and core/firebase.py.

\* What the environment has to supply: the key file of the Google client
\* libraries (object store, and the credentials the Vision client picks
\* up), the Firebase service-account file, and the Gemini API key.
Credentials ==
    { "GOOGLE_APPLICATION_CREDENTIALS", "service-account.json", "GEMINI_API_KEY" }

\* The module initializations, in import order.
BootAfter(m) ==
    CASE m = "core.gcs"                     -> "core.firebase"
      [] m = "core.firebase"                -> "chat.service"
      [] m = "chat.service"                 -> "verification.service"
      [] m = "verification.service"         -> "verification_service"
      [] OTHER                              -> "app"

\* The process is launched in some environment.
StartupInit ==
    /\ VerifyIdle /\ DocsIdle /\ RedactIdle /\ EndpointIdle /\ RenderIdle
    /\ env \in SUBSET Credentials
    /\ boot_pc = "core.gcs"
    /\ process = "starting"
    /\ boot_log = << >>
    /\ requests = << >>

\* The exception `e` leaves a module's top level: the import fails and the
\* process ends.
Crash(e) ==
    /\ process' = "crashed"
    /\ boot_pc' = "none"
    /\ boot_log' = Append(boot_log, e)

\* core/gcs.py: if not key_path or not os.path.exists(key_path): raise
ImportGcs ==
    /\ process = "starting"
    /\ boot_pc = "core.gcs"
    /\ IF "GOOGLE_APPLICATION_CREDENTIALS" \in env
       THEN /\ boot_pc' = BootAfter(boot_pc)
            /\ UNCHANGED << process, boot_log >>
       ELSE Crash("FileNotFoundError")
    /\ UNCHANGED << env, requests, verify_vars, docs_vars, redact_vars,
                    endpoint_vars, render_vars >>

\* core/firebase.py: cred = credentials.Certificate(<path>) raises when the
\* file is not there.
ImportFirebase ==
    /\ process = "starting"
    /\ boot_pc = "core.firebase"
    /\ IF "service-account.json" \in env
       THEN /\ boot_pc' = BootAfter(boot_pc)
            /\ UNCHANGED << process, boot_log >>
       ELSE Crash("FileNotFoundError")
    /\ UNCHANGED << env, requests, verify_vars, docs_vars, redact_vars,
                    endpoint_vars, render_vars >>

\* features/chat/service.py: genai.configure(api_key=os.environ["GEMINI_API_KEY"])
\* in a try whose `except KeyError` prints and goes on.
ImportChatService ==
    /\ process = "starting"
    /\ boot_pc = "chat.service"
    /\ boot_log' = IF "GEMINI_API_KEY" \in env THEN boot_log
                   ELSE Append(boot_log, "ERROR: GEMINI_API_KEY environment variable not set.")
    /\ boot_pc' = BootAfter(boot_pc)
    /\ UNCHANGED << env, process, requests, verify_vars, docs_vars, redact_vars,
                    endpoint_vars, render_vars >>

\* features/verification/service.py: genai.configure(api_key=os.getenv("GEMINI_API_KEY"))
\* in a try whose except logs; os.getenv gives None for a missing key and
\* configure accepts it.
ImportVerificationService ==
    /\ process = "starting"
    /\ boot_pc = "verification.service"
    /\ boot_pc' = BootAfter(boot_pc)
    /\ UNCHANGED << env, process, boot_log, requests, verify_vars, docs_vars,
                    redact_vars, endpoint_vars, render_vars >>

\* verification_service = DocumentVerificationService(): the Vision client
\* looks up the application default credentials and raises without them.
CreateVerificationService ==
    /\ process = "starting"
    /\ boot_pc = "verification_service"
    /\ IF "GOOGLE_APPLICATION_CREDENTIALS" \in env
       THEN /\ boot_pc' = BootAfter(boot_pc)
            /\ UNCHANGED << process, boot_log >>
       ELSE Crash("DefaultCredentialsError")
    /\ UNCHANGED << env, requests, verify_vars, docs_vars, redact_vars,
                    endpoint_vars, render_vars >>

\* Every import went through: the app object exists and the server accepts
\* requests.
Serve ==
    /\ process = "starting"
    /\ boot_pc = "app"
    /\ process' = "serving"
    /\ boot_pc' = "none"
    /\ UNCHANGED << env, boot_log, requests, verify_vars, docs_vars,
                    redact_vars, endpoint_vars, render_vars >>

\* The handlers that call the language model.
RequestKinds == { "chat", "verify" }

\* One request: its model call returns, fails at the API, or fails for
\* want of the key; generate_response and _analyze_text_with_gemini catch
\* the exception and answer with their fixed error reply.
HandleRequest ==
    /\ process = "serving"
    /\ Len(requests) < MaxRequests
    /\ \E kind \in RequestKinds :
         \E o \in IF "GEMINI_API_KEY" \in env
                  THEN { "ok", "api_error" }
                  ELSE { "credential_error" } :
            requests' = Append(requests, [ kind |-> kind, outcome |-> o ])
    /\ UNCHANGED << env, boot_pc, process, boot_log, verify_vars, docs_vars,
                    redact_vars, endpoint_vars, render_vars >>

StartupNext ==
    \/ ImportGcs
    \/ ImportFirebase
    \/ ImportChatService
    \/ ImportVerificationService
    \/ CreateVerificationService
    \/ Serve
    \/ HandleRequest

\* The process from its launch on.
SpecStartup == StartupInit /\ [][StartupNext]_vars

\* C19: a process that lacks a required credential fails at startup: it is
\* never serving with a credential missing, and no request fails for want
\* of a credential.
C19_MissingCredentialFatalAtStartup ==
    /\ process = "serving" => env = Credentials
    /\ \A i \in 1..Len(requests) : requests[i].outcome # "credential_error"

\* ------------------------------------------- generate_pdf_report: the claims

\* The height of the rows and the details block of report d, and the
\* space under the title of the first page.
ContentHeight(d) ==
    (Len(ReportItems) - 1) * (ParagraphHeight(1) + inch \div 4)
        + (ParagraphHeight(d.summary_lines) + inch \div 4)
        + inch \div 4 + ParagraphHeight(d.details_lines)

FirstPageSpace == PageHeight - (3 * inch) \div 2

\* The pages content of height h takes.
PagesNeeded(h) ==
    IF h <= FirstPageSpace THEN 1
    ELSE 1 + (h - FirstPageSpace + PageHeight - 1) \div PageHeight

\* C20: generate_pdf_report draws nothing below the bottom edge of a page,
\* and a report taller than the page gets as many pages as it needs.
C20_OverflowStartsNewPage ==
    rp_pc \in { "returned", "raised" } =>
        /\ \A i \in 1..Len(boxes) : boxes[i].bottom >= 0
        /\ PagesNeeded(ContentHeight(report_data)) > 1 =>
             shown_pages >= PagesNeeded(ContentHeight(report_data))

\* ----------------------------- process_document: the metadata record's claim

\* C21: in every reachable state of process_document the metadata record
\* has ai_summary and risk_analysis both null or both set; they are set
\* only by the one final update, after extraction, redaction and both model
\* calls succeeded; a request that fails after the initial metadata write
\* ends with both fields null, and neither the uploaded object nor the
\* record is ever removed.
C21_SummaryAndRiskSetTogether ==
    /\ [](\A r \in Reqs :
            firestore[r] # Unset =>
               LET rec == firestore[r]
               IN /\ (rec.ai_summary = Null) <=> (rec.risk_analysis = Null)
                  /\ rec.ai_summary # Null =>
                       /\ pd_pc[r] = "returned"
                       /\ pd_locals[r].error = Null
                       /\ pd_locals[r].redacted_content =
                            redact_text(pd_locals[r].content)
                       /\ pd_locals[r].summary # Null
                       /\ pd_locals[r].risk_result # Null
                       /\ rec.ai_summary = pd_locals[r].summary
                       /\ rec.risk_analysis = pd_locals[r].risk_result
                  /\ pd_pc[r] = "failed" =>
                       /\ rec.ai_summary = Null
                       /\ rec.risk_analysis = Null
                       /\ rec.gcs_path \in DOMAIN bucket)
    /\ [][ /\ DOMAIN bucket \subseteq DOMAIN bucket'
           /\ \A r \in Reqs :
                firestore[r] # Unset =>
                   /\ firestore'[r] # Unset
                   /\ firestore'[r] # firestore[r] =>
                        /\ pd_pc[r] = "update"
                        /\ pd_pc'[r] = "returned"
                        /\ firestore[r].ai_summary = Null
                        /\ firestore[r].risk_analysis = Null
                        /\ firestore'[r].ai_summary # Null
                        /\ firestore'[r].risk_analysis # Null ]_vars

\* One request failed at a model call after its record was written, with
\* both fields null and its object stored; the other returned with both
\* fields set.
C21_Witness ==
    \E r, q \in Reqs :
        /\ pd_pc[r] = "failed"
        /\ pd_locals[r].error = ModelError
        /\ firestore[r] # Unset
        /\ firestore[r].ai_summary = Null
        /\ firestore[r].risk_analysis = Null
        /\ firestore[r].gcs_path \in DOMAIN bucket
        /\ pd_pc[q] = "returned"
        /\ firestore[q] # Unset
        /\ firestore[q].ai_summary # Null
        /\ firestore[q].risk_analysis # Null

====
